---------------------------- MODULE Spec2Model ----------------------------
(***************************************************************************)
(* Institutional-memory-bot: the session store (chat_sessions.py), the     *)
(* chunker (document_processor.py), and the vector index with the query    *)
(* and ingestion pipelines (vector_store.py, app.py, ingest.py) as state   *)
(* machines.                                                               *)
(*                                                                         *)
(* Session store.  Two SQLite tables, chat_sessions and chat_messages.     *)
(* A session row is modelled by the columns the operations read or write:  *)
(* id, user_id, is_active, updated_at (title and created_at of a session   *)
(* are written once by the insert and read by no statement that changes    *)
(* state).  A message row is id, session_id, role, content, feedback,      *)
(* created_at (sources is written once by the insert and never again).     *)
(* CURRENT_TIMESTAMP is the variable now, a clock that never runs back     *)
(* and may stand still across any number of calls (its resolution is one   *)
(* second).  The connection never sets PRAGMA foreign_keys, so the         *)
(* FOREIGN KEY ... ON DELETE CASCADE clause of chat_messages is declared   *)
(* but not enforced by SQLite: neither the insert of a message nor the     *)
(* delete of a session looks at the other table.  An ORDER BY created_at  *)
(* over the messages of one session is answered by a scan of               *)
(* idx_messages_session, so rows with equal created_at come in rowid       *)
(* order; an ORDER BY updated_at over the sessions of a user leaves the    *)
(* order of rows with equal updated_at open, and the model takes any.      *)
(*                                                                         *)
(* Chunker.  chunk_text, one loop iteration per step, on texts that are    *)
(* sequences of characters.                                                *)
(*                                                                         *)
(* Vector index and pipeline.  The ChromaDB collection is the sequence of   *)
(* its records; the embedding model is a table from texts to points on a    *)
(* line and the distance of the collection is the squared difference.  A   *)
(* call of the embedding model, of the generator or of the ChromaDB client  *)
(* either returns or raises, and which of the two is an input of the call. *)
(***************************************************************************)
EXTENDS Integers, Sequences, FiniteSets, TLC

\* ------------------------------------------------------------------ bounds
\* user ids the calls are made with
Users == {"u1", "u2"}
\* config.MAX_SESSIONS_PER_USER and config.MAX_CHAT_HISTORY, which
\* chat_sessions.py imports and config.py as given does not set: the limits
\* are configuration, and the model takes the smallest values under which a
\* user holds two sessions and a session two messages
MAX_SESSIONS_PER_USER == 2
MAX_CHAT_HISTORY == 2
\* uuid4 draws: session ids are 1..MaxSessionIds, issued in order, never reused
MaxSessionIds == MAX_SESSIONS_PER_USER + 1
\* AUTOINCREMENT values of chat_messages.id: 1..MaxMessageIds
MaxMessageIds == MAX_CHAT_HISTORY + 1
\* readings of CURRENT_TIMESTAMP: 0..MaxTime
MaxTime == 1
\* add_message calls of a run of Spec, whose calls are made for two users
SpecMessages == 1

\* chunk_text: the longest text argument, and a small configuration
MaxLen == 6
SmallChunkSize == 4
SmallChunkOverlap == 1

\* vector index: the chunks of one add_documents call and the documents of one
\* ingestion run, and the uuid4 draws of a run of the model
MaxChunks == 2
MaxUuids == 3

\* chunk_text under a tight configuration: the loop iterations that are followed
MaxIterations == 6

\* the commits the repository gets
MaxCommits == 3

Roles == {"user", "assistant"}
Contents == {"x", "y"}
\* feedback column: NULL or one of the two values of the feedback buttons
NoFeedback == "null"
Feedbacks == {"positive", "negative"}
\* a session id that was never issued (any string that is no stored id)
NoSession == 0

VARIABLES
    sessions,   \* chat_sessions: id -> [user_id, is_active, updated_at]
    messages,   \* chat_messages: id -> [session_id, role, content, feedback, created_at]
    nextSid,    \* the next uuid4 draw
    nextMid,    \* the AUTOINCREMENT sequence of chat_messages
    now,        \* CURRENT_TIMESTAMP
    added,      \* history: message id -> the session_id it was inserted with
    last,       \* the call that produced this state: its arguments and return value
    raw,        \* chunk_text: the text argument
    cfg,        \* chunk_text: [size |-> CHUNK_SIZE, overlap |-> CHUNK_OVERLAP]
    text,       \* chunk_text: the local text, normalized
    chunks,     \* chunk_text: the list chunks
    start,      \* chunk_text: the local start
    chunk_id,   \* chunk_text: the local chunk_id
    pc,         \* chunk_text: "idle", "call", "loop" or "done"
    index,      \* the collection: the records in the order they were added
    exists,     \* the client holds a collection of the name COLLECTION_NAME
    nextUuid,   \* the next uuid4 draw of add_documents
    out,        \* the vector store or pipeline call that produced this state
    head,       \* the latest commit of the GitHub repository
    last_commit,  \* the content of .github_last_commit, NoCommit while there is no file
    calls       \* concurrent create_session calls: process -> the call it is in

sessionVars == <<sessions, messages, nextSid, nextMid, now, added, last>>
chunkerVars == <<raw, cfg, text, chunks, start, chunk_id, pc>>
indexVars == <<index, exists, nextUuid, out>>
updaterVars == <<head, last_commit>>
concVars == <<calls>>
vars == <<sessionVars, chunkerVars, indexVars, updaterVars, concVars>>

\* the processes that call the session store at the same time
Procs == {"p1", "p2"}

\* a process that is in no call
IdleCall == [pc |-> "idle", user_id |-> "", id |-> 0, count |-> 0]

\* no create_session call is under way
ConcIdle == calls = [p \in Procs |-> IdleCall]

\* commits are numbered in the order they are pushed; NoCommit is no commit
NoCommit == 0

\* the repository has its first commit, and no ingestion has run
UpdaterInit ==
    /\ head = 1
    /\ last_commit = NoCommit

\* config.CHUNK_SIZE and config.CHUNK_OVERLAP
CHUNK_SIZE == 1000
CHUNK_OVERLAP == 200

\* ------------------------------------------------------------- row helpers
Restrict(f, D) == [i \in D |-> f[i]]

\* SELECT id FROM chat_sessions WHERE user_id = u
UserSessions(S, u) == {i \in DOMAIN S : S[i].user_id = u}

\* SELECT id FROM chat_sessions WHERE user_id = u AND is_active = 1
ActiveSessions(S, u) == {i \in UserSessions(S, u) : S[i].is_active}

\* SELECT id FROM chat_messages WHERE session_id = sid
SessionMessages(M, sid) == {m \in DOMAIN M : M[m].session_id = sid}

\* UPDATE chat_sessions SET is_active = 0 WHERE user_id = u
DeactivateAll(S, u) ==
    [i \in DOMAIN S |->
        IF S[i].user_id = u THEN [S[i] EXCEPT !.is_active = FALSE] ELSE S[i]]

\* session ids a caller can name: every id issued so far, and one that never was
SessionIdArgs == (1..(nextSid - 1)) \cup {NoSession}

\* last: op and the arguments of the call, ok its boolean return value, id
\* the session id create_session returned or the id of the inserted message,
\* evicted the rows _cleanup_old_sessions deleted, before the feedback the
\* updated message held until the call
NoCall == [op |-> "init", user_id |-> "", session_id |-> NoSession,
           content |-> "", feedback |-> NoFeedback, ok |-> TRUE,
           id |-> 0, evicted |-> {}, before |-> NoFeedback]

\* --------------------------------------------------------------- operations
\* _cleanup_old_sessions with ORDER BY updated_at DESC
cleanup_newest_sessions(S, u) ==
    LET ids == UserSessions(S, u)
        count == Cardinality(ids)
        sessions_to_delete == count - MAX_SESSIONS_PER_USER + 1
    IN  IF count >= MAX_SESSIONS_PER_USER
        THEN {V \in SUBSET ids :
                /\ Cardinality(V) = sessions_to_delete
                /\ \A v \in V, w \in ids \ V : S[v].updated_at >= S[w].updated_at}
        ELSE {{}}

\* _cleanup_old_sessions: the sets of rows the DELETE ... ORDER BY updated_at
\* ASC LIMIT k can remove.  Rows with equal updated_at come in the order of
\* the index scan; any of them may be taken.
cleanup_old_sessions(S, u) ==
    LET ids == UserSessions(S, u)
        count == Cardinality(ids)
        sessions_to_delete == count - MAX_SESSIONS_PER_USER + 1
    IN  IF count >= MAX_SESSIONS_PER_USER
        THEN {V \in SUBSET ids :
                /\ Cardinality(V) = sessions_to_delete
                /\ \A v \in V, w \in ids \ V : S[v].updated_at <= S[w].updated_at}
        ELSE {{}}

\* create_session without the UPDATE that deactivates the user's sessions
create_session_no_deactivate(u) ==
    /\ nextSid <= MaxSessionIds
    /\ \E V \in cleanup_old_sessions(sessions, u) :
        LET kept == Restrict(sessions, DOMAIN sessions \ V)
            row == [user_id |-> u, is_active |-> TRUE, updated_at |-> now]
        IN  /\ sessions' = (nextSid :> row) @@ kept
            /\ last' = [NoCall EXCEPT !.op = "create_session", !.user_id = u,
                                      !.id = nextSid, !.evicted = V]
    /\ nextSid' = nextSid + 1
    /\ UNCHANGED <<messages, nextMid, now, added, chunkerVars, indexVars, updaterVars, concVars>>

create_session(u) ==
    /\ nextSid <= MaxSessionIds
    /\ \E V \in cleanup_old_sessions(sessions, u) :
        LET kept == Restrict(sessions, DOMAIN sessions \ V)
            row == [user_id |-> u, is_active |-> TRUE, updated_at |-> now]
        IN  /\ sessions' = (nextSid :> row) @@ DeactivateAll(kept, u)
            /\ last' = [NoCall EXCEPT !.op = "create_session", !.user_id = u,
                                      !.id = nextSid, !.evicted = V]
    /\ nextSid' = nextSid + 1
    /\ UNCHANGED <<messages, nextMid, now, added, chunkerVars, indexVars, updaterVars, concVars>>

\* switch_session without the UPDATE that deactivates the user's sessions
switch_session_no_deactivate(sid, u) ==
    LET hit == sid \in UserSessions(sessions, u)
    IN  /\ sessions' = IF hit
                       THEN [sessions EXCEPT ![sid].is_active = TRUE,
                                             ![sid].updated_at = now]
                       ELSE sessions
        /\ last' = [NoCall EXCEPT !.op = "switch_session", !.user_id = u,
                                  !.session_id = sid, !.ok = hit]
        /\ UNCHANGED <<messages, nextSid, nextMid, now, added, chunkerVars, indexVars, updaterVars, concVars>>

switch_session(sid, u) ==
    LET off == DeactivateAll(sessions, u)
        hit == sid \in UserSessions(sessions, u)
    IN  /\ sessions' = IF hit
                       THEN [off EXCEPT ![sid].is_active = TRUE,
                                        ![sid].updated_at = now]
                       ELSE off
        /\ last' = [NoCall EXCEPT !.op = "switch_session", !.user_id = u,
                                  !.session_id = sid, !.ok = hit]
        /\ UNCHANGED <<messages, nextSid, nextMid, now, added, chunkerVars, indexVars, updaterVars, concVars>>

\* delete_session whose DELETE has no user_id in its WHERE clause
delete_session_any_user(sid, u) ==
    LET hit == sid \in DOMAIN sessions
    IN  /\ sessions' = IF hit THEN Restrict(sessions, DOMAIN sessions \ {sid})
                       ELSE sessions
        /\ last' = [NoCall EXCEPT !.op = "delete_session", !.user_id = u,
                                  !.session_id = sid, !.ok = hit]
        /\ UNCHANGED <<messages, nextSid, nextMid, now, added, chunkerVars, indexVars, updaterVars, concVars>>

delete_session(sid, u) ==
    LET hit == sid \in UserSessions(sessions, u)
    IN  /\ sessions' = IF hit THEN Restrict(sessions, DOMAIN sessions \ {sid})
                       ELSE sessions
        /\ last' = [NoCall EXCEPT !.op = "delete_session", !.user_id = u,
                                  !.session_id = sid, !.ok = hit]
        /\ UNCHANGED <<messages, nextSid, nextMid, now, added, chunkerVars, indexVars, updaterVars, concVars>>

\* the scan order of idx_messages_session (session_id, created_at): within
\* one session the rows come by created_at and, for equal created_at, by
\* rowid, which closes every index entry
Before(M, a, b) ==
    \/ M[a].created_at < M[b].created_at
    \/ M[a].created_at = M[b].created_at /\ a < b

\* the first k rows of ids in the scan order, and the last row
FirstRows(M, ids, k) ==
    {m \in ids : Cardinality({o \in ids : Before(M, o, m)}) < k}
LastRow(M, ids) == CHOOSE m \in ids : \A o \in ids \ {m} : Before(M, o, m)

\* _cleanup_old_messages with ORDER BY created_at DESC
cleanup_newest_messages(M, sid) ==
    LET ids == SessionMessages(M, sid)
        count == Cardinality(ids)
        messages_to_delete == count - MAX_CHAT_HISTORY
    IN  IF count > MAX_CHAT_HISTORY
        THEN Restrict(M, DOMAIN M \
                {m \in ids : Cardinality({o \in ids : Before(M, m, o)}) < messages_to_delete})
        ELSE M

\* _cleanup_old_messages: DELETE ... ORDER BY created_at ASC LIMIT count - max
cleanup_old_messages(M, sid) ==
    LET ids == SessionMessages(M, sid)
        count == Cardinality(ids)
        messages_to_delete == count - MAX_CHAT_HISTORY
    IN  IF count > MAX_CHAT_HISTORY
        THEN Restrict(M, DOMAIN M \ FirstRows(M, ids, messages_to_delete))
        ELSE M

add_message(sid, role, content, feedback) ==
    LET row == [session_id |-> sid, role |-> role, content |-> content,
                feedback |-> feedback, created_at |-> now]
        inserted == (nextMid :> row) @@ messages
    IN  /\ nextMid <= MaxMessageIds
        /\ messages' = cleanup_old_messages(inserted, sid)
        /\ sessions' = [i \in DOMAIN sessions |->
                            IF i = sid THEN [sessions[i] EXCEPT !.updated_at = now]
                            ELSE sessions[i]]
        /\ nextMid' = nextMid + 1
        /\ added' = (nextMid :> sid) @@ added
        /\ last' = [NoCall EXCEPT !.op = "add_message", !.session_id = sid,
                                  !.content = content, !.feedback = feedback,
                                  !.id = nextMid]
        /\ UNCHANGED <<nextSid, now, chunkerVars, indexVars, updaterVars, concVars>>

\* the WHERE clause without role = 'assistant'
FeedbackMatchesAnyRole(M, sid, content) ==
    {m \in SessionMessages(M, sid) : M[m].content = content}

\* the rows of the UPDATE's WHERE clause
FeedbackMatches(M, sid, content) ==
    {m \in SessionMessages(M, sid) :
        M[m].content = content /\ M[m].role = "assistant"}

\* update_message_feedback that writes only where feedback IS NULL
update_feedback_if_unset(sid, content, feedback) ==
    LET matches == FeedbackMatches(messages, sid, content)
        row == LastRow(messages, matches)
    IN  /\ messages' = IF matches # {} /\ messages[row].feedback = NoFeedback
                       THEN [messages EXCEPT ![row].feedback = feedback]
                       ELSE messages
        /\ last' = [NoCall EXCEPT !.op = "update_message_feedback",
                                  !.session_id = sid, !.content = content,
                                  !.feedback = feedback, !.ok = (matches # {}),
                                  !.before = IF matches # {}
                                             THEN messages[row].feedback
                                             ELSE NoFeedback]
        /\ UNCHANGED <<sessions, nextSid, nextMid, now, added, chunkerVars, indexVars, updaterVars, concVars>>

\* UPDATE ... ORDER BY created_at DESC LIMIT 1 takes the last row of the scan
update_message_feedback(sid, content, feedback) ==
    LET matches == FeedbackMatches(messages, sid, content)
    IN  /\ messages' = IF matches # {}
                       THEN [messages EXCEPT
                                ![LastRow(messages, matches)].feedback = feedback]
                       ELSE messages
        /\ last' = [NoCall EXCEPT !.op = "update_message_feedback",
                                  !.session_id = sid, !.content = content,
                                  !.feedback = feedback, !.ok = (matches # {}),
                                  !.before = IF matches # {}
                                             THEN messages[LastRow(messages, matches)].feedback
                                             ELSE NoFeedback]
        /\ UNCHANGED <<sessions, nextSid, nextMid, now, added, chunkerVars, indexVars, updaterVars, concVars>>

\* the clock advances between two calls
Tick ==
    /\ now < MaxTime
    /\ now' = now + 1
    /\ last' = [NoCall EXCEPT !.op = "tick"]
    /\ UNCHANGED <<sessions, messages, nextSid, nextMid, added, chunkerVars, indexVars, updaterVars, concVars>>

\* ------------------------------------------- concurrent create_session calls
\* A call of create_session takes four steps that calls of other callers can
\* come between: the uuid4 draw, the SELECT COUNT of _cleanup_old_sessions,
\* its DELETE (one transaction), and the UPDATE and INSERT of create_session
\* (one transaction on a second connection).

\* the calls that are between two of their steps
Running == {p \in Procs : calls[p].pc \in {"count", "evict", "insert"}}

\* the rows DELETE ... ORDER BY updated_at ASC LIMIT k can remove
oldest_sessions(S, u, k) ==
    LET ids == UserSessions(S, u)
    IN  {V \in SUBSET ids :
            /\ Cardinality(V) = (IF k < Cardinality(ids) THEN k ELSE Cardinality(ids))
            /\ \A v \in V, w \in ids \ V : S[v].updated_at <= S[w].updated_at}

\* session_id = str(uuid.uuid4())
conc_begin(p, u) ==
    /\ calls[p].pc = "idle"
    /\ nextSid <= MaxSessionIds
    /\ calls' = [calls EXCEPT ![p] = [pc |-> "count", user_id |-> u,
                                      id |-> nextSid, count |-> 0]]
    /\ nextSid' = nextSid + 1
    /\ UNCHANGED <<sessions, messages, nextMid, now, added, last, chunkerVars,
                   indexVars, updaterVars>>

\* SELECT COUNT(*) FROM chat_sessions WHERE user_id = ?
conc_count(p) ==
    LET count == Cardinality(UserSessions(sessions, calls[p].user_id))
    IN  /\ calls[p].pc = "count"
        /\ calls' = [calls EXCEPT ![p].count = count,
                                  ![p].pc = IF count >= MAX_SESSIONS_PER_USER
                                            THEN "evict" ELSE "insert"]
        /\ UNCHANGED <<sessionVars, chunkerVars, indexVars, updaterVars>>

\* DELETE ... LIMIT count - MAX_SESSIONS_PER_USER + 1, with the count read before
conc_evict(p) ==
    /\ calls[p].pc = "evict"
    /\ \E V \in oldest_sessions(sessions, calls[p].user_id,
                                 calls[p].count - MAX_SESSIONS_PER_USER + 1) :
           sessions' = Restrict(sessions, DOMAIN sessions \ V)
    /\ calls' = [calls EXCEPT ![p].pc = "insert"]
    /\ UNCHANGED <<messages, nextSid, nextMid, now, added, last, chunkerVars,
                   indexVars, updaterVars>>

\* the INSERT without the UPDATE that deactivates the user's sessions
conc_insert_no_deactivate(p) ==
    LET row == [user_id |-> calls[p].user_id, is_active |-> TRUE, updated_at |-> now]
    IN  /\ calls[p].pc = "insert"
        /\ sessions' = (calls[p].id :> row) @@ sessions
        /\ calls' = [calls EXCEPT ![p].pc = "done"]
        /\ UNCHANGED <<messages, nextSid, nextMid, now, added, last, chunkerVars,
                       indexVars, updaterVars>>

\* UPDATE ... SET is_active = 0 and INSERT ... is_active 1, committed together
conc_insert(p) ==
    LET row == [user_id |-> calls[p].user_id, is_active |-> TRUE, updated_at |-> now]
    IN  /\ calls[p].pc = "insert"
        /\ sessions' = (calls[p].id :> row) @@ DeactivateAll(sessions, calls[p].user_id)
        /\ calls' = [calls EXCEPT ![p].pc = "done"]
        /\ UNCHANGED <<messages, nextSid, nextMid, now, added, last, chunkerVars,
                       indexVars, updaterVars>>

\* the caller has its session id and may call again
conc_return(p) ==
    /\ calls[p].pc = "done"
    /\ calls' = [calls EXCEPT ![p] = IdleCall]
    /\ UNCHANGED <<sessionVars, chunkerVars, indexVars, updaterVars>>

\* ------------------------------------------------------------------ chunker
\* A text is a sequence of characters: a letter, a sentence terminator, and
\* two of the characters \s matches.
Whitespace == {" ", "\n"}
Terminators == {".", "!", "?"}
Chars == {"a", "."} \cup Whitespace
Texts == UNION {[1..n -> Chars] : n \in 0..MaxLen}

Min(a, b) == IF a <= b THEN a ELSE b
Max(a, b) == IF a >= b THEN a ELSE b

\* s without its leading whitespace
RECURSIVE LStrip(_)
LStrip(s) == IF s # <<>> /\ Head(s) \in Whitespace THEN LStrip(Tail(s)) ELSE s

Reverse(s) == [i \in 1..Len(s) |-> s[Len(s) + 1 - i]]

\* str.strip()
Strip(s) == Reverse(LStrip(Reverse(LStrip(s))))

\* re.sub(r'\s+', ' ', text): every maximal run of whitespace becomes one
\* space.  The text is collapsed half by half, so that a text of several
\* thousand characters needs a recursion of a dozen levels: where both halves
\* meet in whitespace the two spaces are one run.
RECURSIVE Collapse(_)
Collapse(s) ==
    IF Len(s) = 0 THEN <<>>
    ELSE IF Len(s) = 1 THEN (IF s[1] \in Whitespace THEN <<" ">> ELSE s)
    ELSE LET m == Len(s) \div 2
             l == Collapse(SubSeq(s, 1, m))
             r == Collapse(SubSeq(s, m + 1, Len(s)))
         IN  IF l[Len(l)] = " " /\ r[1] = " " THEN l \o Tail(r) ELSE l \o r

\* re.sub without the .strip() that follows it
CollapseOnly(s) == Collapse(s)

\* text = re.sub(r'\s+', ' ', text).strip()
Normalize(s) == Strip(Collapse(s))

\* text[a:b] and text[k] of Python, indices from 0, negative ones from the end
PySlice(s, a, b) ==
    LET n == Len(s)
        lo == IF a < 0 THEN Max(a + n, 0) ELSE Min(a, n)
        hi == IF b < 0 THEN Max(b + n, 0) ELSE Min(b, n)
    IN  SubSeq(s, lo + 1, hi)
PyIndex(s, k) == IF k < 0 THEN s[k + Len(s) + 1] ELSE s[k + 1]

\* the for loop of chunk_text: the end of the chunk that starts at st
SnapEnd(t, st, size) ==
    LET end == st + size
        found == {i \in 0..(Min(100, size \div 4) - 1) :
                    end - i > st /\ PyIndex(t, end - i) \in Terminators}
    IN  IF end < Len(t) /\ found # {}
        THEN end - (CHOOSE i \in found : \A j \in found : i <= j) + 1
        ELSE end

\* a chunk without source and title, which chunk_text copies from its arguments
Chunk(content, id, st, end) ==
    [content |-> content, chunk_id |-> id, start_char |-> st, end_char |-> end]

\* chunk_text up to the loop: normalization and the single-chunk return
chunk_text_begin ==
    /\ pc = "call"
    /\ LET t == Normalize(raw)
       IN  /\ text' = t
           /\ IF Len(t) <= cfg.size
              THEN chunks' = <<Chunk(t, 0, 0, Len(t))>> /\ pc' = "done"
              ELSE chunks' = <<>> /\ pc' = "loop"
    /\ start' = 0
    /\ chunk_id' = 0
    /\ UNCHANGED <<raw, cfg, sessionVars, indexVars, updaterVars, concVars>>

\* the loop with start = end in place of start = end - CHUNK_OVERLAP
chunk_text_iter_no_overlap ==
    /\ pc = "loop"
    /\ LET end == SnapEnd(text, start, cfg.size)
           piece == Strip(PySlice(text, start, end))
           next == end
       IN  /\ IF piece # <<>>
              THEN /\ chunks' = Append(chunks, Chunk(piece, chunk_id, start, end))
                   /\ chunk_id' = chunk_id + 1
              ELSE UNCHANGED <<chunks, chunk_id>>
           /\ start' = next
           /\ pc' = IF next >= Len(text) THEN "done" ELSE "loop"
    /\ UNCHANGED <<raw, cfg, text, sessionVars, indexVars, updaterVars, concVars>>

\* one iteration of while start < len(text)
chunk_text_iter ==
    /\ pc = "loop"
    /\ LET end == SnapEnd(text, start, cfg.size)
           piece == Strip(PySlice(text, start, end))
           next == end - cfg.overlap
       IN  /\ IF piece # <<>>
              THEN /\ chunks' = Append(chunks, Chunk(piece, chunk_id, start, end))
                   /\ chunk_id' = chunk_id + 1
              ELSE UNCHANGED <<chunks, chunk_id>>
           /\ start' = next
           /\ pc' = IF next >= Len(text) THEN "done" ELSE "loop"
    /\ UNCHANGED <<raw, cfg, text, sessionVars, indexVars, updaterVars, concVars>>

\* ------------------------------------------------------------- vector index
\* config.TOP_K_RESULTS
TOP_K_RESULTS == 5

\* chunk contents and questions
Docs == {"d1", "d2"}
Queries == {"q1", "q2"}

\* embed_content: the point of a text.  q1 lies on d1, and q2 lies midway
\* between d1 and d2, so that a lookup has equal distances to order
Embed(t) == CASE t = "d1" -> 0 [] t = "d2" -> 2 [] t = "q1" -> 0 [] OTHER -> 1

\* the distance of the collection, created without hnsw:space: squared L2
Distance(a, b) == (a - b) * (a - b)

Range(s) == {s[i] : i \in DOMAIN s}

\* the strings process_query and generate_response return
NoInformation ==
    "I couldn't find any relevant information in the knowledge base for your question."
GeneratedText == "response.text"
NoResponse == "I couldn't generate a response. Please try again."
GenerationError == "Error generating response: str(e)"
ProcessingError == "Error processing query: str(e)"

\* no call yet.  failed holds the capabilities that raised during the call,
\* logged the log records of the call in the order they were written
NoOut ==
    [op |-> "none", ok |-> TRUE, chunks |-> <<>>, query |-> "", top_k |-> 0,
     results |-> <<>>, response |-> "", sources |-> <<>>, generated |-> FALSE,
     logged |-> <<>>, exit |-> -1, failed |-> {}, raised |-> FALSE,
     triggered |-> FALSE]

\* chunk_documents on documents of at most CHUNK_SIZE characters: one chunk
\* for each, with chunk_id 0, in the order of the documents
chunk_documents(documents) ==
    [k \in 1..Len(documents) |-> [content |-> documents[k], chunk_id |-> 0]]

\* the document lists of a call
DocumentLists == UNION {[1..n -> Docs] : n \in 0..MaxChunks}

\* generate_embeddings: one embed_content call for each text; failAt is the
\* text whose call raises, 0 when none does
generate_embeddings(texts, failAt) ==
    IF failAt \in 1..Len(texts)
    THEN [raised |-> TRUE, values |-> <<>>, logged |-> <<"error">>]
    ELSE [raised |-> FALSE, values |-> [k \in 1..Len(texts) |-> Embed(texts[k])],
          logged |-> <<>>]

\* add_documents that embeds and adds one chunk after the other
AddDocumentsChunkwise(idx, ex, uuid, cs, failAt, addOk) ==
    LET documents == [k \in 1..Len(cs) |-> cs[k].content]
        done == IF failAt \in 1..Len(cs) THEN failAt - 1 ELSE Len(cs)
        records == [k \in 1..done |->
                       [id |-> uuid + k - 1, document |-> documents[k],
                        embedding |-> Embed(documents[k]), chunk_id |-> cs[k].chunk_id]]
    IN  IF cs = <<>>
        THEN [ok |-> TRUE, index |-> idx, nextUuid |-> uuid, logged |-> <<>>,
              failed |-> {}]
        ELSE IF ~ex \/ ~addOk
        THEN [ok |-> FALSE, index |-> idx, nextUuid |-> uuid + Len(cs),
              logged |-> <<"error">>, failed |-> {"add"}]
        ELSE [ok |-> done = Len(cs), index |-> idx \o records,
              nextUuid |-> uuid + Len(cs),
              logged |-> IF done = Len(cs) THEN <<>> ELSE <<"error", "error">>,
              failed |-> IF done = Len(cs) THEN {} ELSE {"embedding"}]

\* add_documents that leaves out a document the collection already holds
AddDocumentsDedup(idx, ex, uuid, cs, failAt, addOk) ==
    LET documents == [k \in 1..Len(cs) |-> cs[k].content]
        ids == [k \in 1..Len(cs) |-> uuid + k - 1]
        emb == generate_embeddings(documents, failAt)
        records == [k \in 1..Len(cs) |->
                       [id |-> ids[k], document |-> documents[k],
                        embedding |-> emb.values[k], chunk_id |-> cs[k].chunk_id]]
        held(d) == \E j \in DOMAIN idx : idx[j].document = d
    IN  IF cs = <<>>
        THEN [ok |-> TRUE, index |-> idx, nextUuid |-> uuid, logged |-> <<>>,
              failed |-> {}]
        ELSE IF emb.raised
        THEN [ok |-> FALSE, index |-> idx, nextUuid |-> uuid + Len(cs),
              logged |-> emb.logged \o <<"error">>, failed |-> {"embedding"}]
        ELSE IF ~ex \/ ~addOk
        THEN [ok |-> FALSE, index |-> idx, nextUuid |-> uuid + Len(cs),
              logged |-> <<"error">>, failed |-> {"add"}]
        ELSE [ok |-> TRUE,
              index |-> idx \o SelectSeq(records, LAMBDA r : ~held(r.document)),
              nextUuid |-> uuid + Len(cs), logged |-> <<>>, failed |-> {}]

\* add_documents on the collection idx: the new collection, the return value
\* and the log records
AddDocuments(idx, ex, uuid, cs, failAt, addOk) ==
    LET documents == [k \in 1..Len(cs) |-> cs[k].content]
        ids == [k \in 1..Len(cs) |-> uuid + k - 1]
        emb == generate_embeddings(documents, failAt)
        records == [k \in 1..Len(cs) |->
                       [id |-> ids[k], document |-> documents[k],
                        embedding |-> emb.values[k], chunk_id |-> cs[k].chunk_id]]
    IN  IF cs = <<>>
        THEN [ok |-> TRUE, index |-> idx, nextUuid |-> uuid, logged |-> <<>>,
              failed |-> {}]
        ELSE IF emb.raised
        THEN [ok |-> FALSE, index |-> idx, nextUuid |-> uuid + Len(cs),
              logged |-> emb.logged \o <<"error">>, failed |-> {"embedding"}]
        ELSE IF ~ex \/ ~addOk
        THEN [ok |-> FALSE, index |-> idx, nextUuid |-> uuid + Len(cs),
              logged |-> <<"error">>, failed |-> {"add"}]
        ELSE [ok |-> TRUE, index |-> idx \o records, nextUuid |-> uuid + Len(cs),
              logged |-> <<>>, failed |-> {}]

add_documents(documents, failAt, addOk) ==
    LET cs == chunk_documents(documents)
        r == AddDocuments(index, exists, nextUuid, cs, failAt, addOk)
    IN  /\ nextUuid + Len(cs) - 1 <= MaxUuids
        /\ index' = r.index
        /\ nextUuid' = r.nextUuid
        /\ out' = [NoOut EXCEPT !.op = "add_documents", !.chunks = cs, !.ok = r.ok,
                                !.logged = r.logged, !.failed = r.failed]
        /\ UNCHANGED <<exists, sessionVars, chunkerVars, updaterVars, concVars>>

\* what delete_collection and get_or_create_collection do in clear_collection
ClearOutcomes == {"cleared", "delete_raised", "create_raised"}

\* clear_collection: delete_collection raises when there is no collection
ClearCollection(idx, ex, outcome) ==
    IF ~ex \/ outcome = "delete_raised"
    THEN [ok |-> FALSE, index |-> idx, exists |-> ex, logged |-> <<"error">>,
          failed |-> {"delete"}]
    ELSE IF outcome = "create_raised"
    THEN [ok |-> FALSE, index |-> <<>>, exists |-> FALSE, logged |-> <<"error">>,
          failed |-> {"create"}]
    ELSE [ok |-> TRUE, index |-> <<>>, exists |-> TRUE, logged |-> <<>>, failed |-> {}]

clear_collection(outcome) ==
    LET r == ClearCollection(index, exists, outcome)
    IN  /\ index' = r.index
        /\ exists' = r.exists
        /\ out' = [NoOut EXCEPT !.op = "clear_collection", !.ok = r.ok,
                                !.logged = r.logged, !.failed = r.failed]
        /\ UNCHANGED <<nextUuid, sessionVars, chunkerVars, updaterVars, concVars>>

\* the sequences of m of the positions P, each one nearest to the point e
\* among those not yet taken
RECURSIVE Nearest(_, _, _, _)
Nearest(idx, e, P, m) ==
    IF m = 0 \/ P = {} THEN {<<>>}
    ELSE LET first == {i \in P : \A j \in P :
                          Distance(e, idx[i].embedding) <= Distance(e, idx[j].embedding)}
         IN  UNION {{<<i>> \o t : t \in Nearest(idx, e, P \ {i}, m - 1)} : i \in first}

\* collection.query(n_results = n): the positions of the n records nearest to
\* the query, nearest first; records at equal distance in any order
QueryResults(idx, q, n) == Nearest(idx, Embed(q), 1..Len(idx), n)

\* the result dicts with 'rank': i instead of 'rank': i + 1
FormatResultsRankFromZero(idx, q, r) ==
    [i \in 1..Len(r) |->
        [content |-> idx[r[i]].document,
         chunk_id |-> idx[r[i]].chunk_id,
         similarity_score |-> 1 - Distance(Embed(q), idx[r[i]].embedding),
         rank |-> i - 1]]

\* the result dicts search builds from the lookup r
FormatResults(idx, q, r) ==
    [i \in 1..Len(r) |->
        [content |-> idx[r[i]].document,
         chunk_id |-> idx[r[i]].chunk_id,
         similarity_score |-> 1 - Distance(Embed(q), idx[r[i]].embedding),
         rank |-> i]]

\* search without its except clause
SearchUncaught(idx, ex, q, embOk, lookupOk, r) ==
    IF ~embOk
    THEN [results |-> <<>>, logged |-> <<"error">>, failed |-> {"embedding"},
          raised |-> TRUE]
    ELSE IF ~ex \/ ~lookupOk
    THEN [results |-> <<>>, logged |-> <<>>, failed |-> {"lookup"}, raised |-> TRUE]
    ELSE [results |-> FormatResults(idx, q, r), logged |-> <<>>, failed |-> {},
          raised |-> FALSE]

\* search: the query is embedded (embOk), the collection looked up (lookupOk,
\* with the answer r), and whatever is raised is caught and logged
Search(idx, ex, q, embOk, lookupOk, r) ==
    IF ~embOk
    THEN [results |-> <<>>, logged |-> <<"error", "error">>,
          failed |-> {"embedding"}, raised |-> FALSE]
    ELSE IF ~ex \/ ~lookupOk
    THEN [results |-> <<>>, logged |-> <<"error">>, failed |-> {"lookup"},
          raised |-> FALSE]
    ELSE [results |-> FormatResults(idx, q, r), logged |-> <<>>, failed |-> {},
          raised |-> FALSE]

\* explicit top_k arguments; top_k = None stands for TOP_K_RESULTS
TopKs == {1, 2, TOP_K_RESULTS}

search(q, top_k, embOk, lookupOk) ==
    \E r \in IF embOk /\ exists /\ lookupOk
             THEN QueryResults(index, q, top_k) ELSE {<<>>} :
        LET s == Search(index, exists, q, embOk, lookupOk, r)
        IN  /\ out' = [NoOut EXCEPT !.op = "search", !.query = q, !.top_k = top_k,
                                    !.results = s.results, !.logged = s.logged,
                                    !.failed = s.failed, !.raised = s.raised,
                                    !.ok = (s.failed = {})]
            /\ UNCHANGED <<index, exists, nextUuid, sessionVars, chunkerVars, updaterVars, concVars>>

\* what generate_content does: text, no text, or an exception
Generations == {"text", "empty", "raised"}

\* generate_response: catches what generate_content raises and returns a string
generate_response(gen) ==
    CASE gen = "text" -> [text |-> GeneratedText, logged |-> <<>>, failed |-> {}]
      [] gen = "empty" -> [text |-> NoResponse, logged |-> <<>>, failed |-> {}]
      [] OTHER -> [text |-> GenerationError, logged |-> <<"error">>,
                   failed |-> {"generation"}]

\* process_query that calls the generator whatever search returned
ProcessQueryNoEmptyCheck(s, gen, logOk) ==
    LET g == generate_response(gen)
    IN  IF logOk
        THEN [response |-> g.text, sources |-> s.results, generated |-> TRUE,
              logged |-> s.logged \o g.logged \o <<"query", "queries.json">>,
              failed |-> s.failed \cup g.failed]
        ELSE [response |-> ProcessingError, sources |-> <<>>, generated |-> TRUE,
              logged |-> s.logged \o g.logged \o <<"query", "error">>,
              failed |-> s.failed \cup g.failed \cup {"log_query"}]

\* process_query after search returned s: log_query writes its log line and
\* then rewrites queries.json, which is where it can raise (logOk)
ProcessQuery(s, gen, logOk) ==
    LET g == generate_response(gen)
    IN  IF s.results = <<>>
        THEN [response |-> NoInformation, sources |-> <<>>, generated |-> FALSE,
              logged |-> s.logged, failed |-> s.failed]
        ELSE IF logOk
        THEN [response |-> g.text, sources |-> s.results, generated |-> TRUE,
              logged |-> s.logged \o g.logged \o <<"query", "queries.json">>,
              failed |-> s.failed \cup g.failed]
        ELSE [response |-> ProcessingError, sources |-> <<>>, generated |-> TRUE,
              logged |-> s.logged \o g.logged \o <<"query", "error">>,
              failed |-> s.failed \cup g.failed \cup {"log_query"}]

process_query(q, embOk, lookupOk, gen, logOk) ==
    \E r \in IF embOk /\ exists /\ lookupOk
             THEN QueryResults(index, q, TOP_K_RESULTS) ELSE {<<>>} :
        LET s == Search(index, exists, q, embOk, lookupOk, r)
            p == ProcessQuery(s, gen, logOk)
        IN  /\ out' = [NoOut EXCEPT !.op = "process_query", !.query = q,
                                    !.top_k = TOP_K_RESULTS, !.results = s.results,
                                    !.response = p.response, !.sources = p.sources,
                                    !.generated = p.generated, !.logged = p.logged,
                                    !.failed = p.failed, !.ok = (p.failed = {})]
            /\ UNCHANGED <<index, exists, nextUuid, sessionVars, chunkerVars, updaterVars, concVars>>

\* where an ingestion run takes its documents from
Sources == {"local", "github"}

\* the documents the loader returns: a file whose load fails is logged and
\* left out (lost is its place among the files, 0 when every file loads)
LoadedDocuments(files, lost) ==
    [k \in 1..(IF lost \in 1..Len(files) THEN Len(files) - 1 ELSE Len(files)) |->
        IF lost \in 1..Len(files) /\ k >= lost THEN files[k + 1] ELSE files[k]]

\* one run of ingest.py on the collection idx (ex: it exists) with the head
\* latest of the repository and the recorded commit: the exit status, the log
\* records, the steps that failed, the collection and the recorded commit it
\* leaves. initOk: the vector store of the process is initialized; loadOk:
\* the data directory or the crawler is there; commitOk: get_latest_commit
\* answers.
IngestRun(idx, ex, uuid, latest, commit, source, files, initOk, loadOk, lost, commitOk, outcome, failAt, addOk) ==
    LET documents == LoadedDocuments(files, lost)
        dropped == lost \in 1..Len(files)
        cs == chunk_documents(documents)
        idx0 == IF ex THEN idx ELSE <<>>
        c == ClearCollection(idx0, TRUE, outcome)
        a == AddDocuments(c.index, c.exists, uuid, cs, failAt, addOk)
        written == IF source = "github" /\ commitOk THEN latest ELSE commit
        loadLogged == IF dropped THEN <<"error">> ELSE <<>>
        loadFailed == IF dropped THEN {"load"} ELSE {}
    IN  IF ~initOk
        THEN [exit |-> 1, ok |-> FALSE, chunks |-> <<>>, logged |-> <<"error">>,
              failed |-> {"init"}, raised |-> TRUE, index |-> idx, exists |-> ex,
              nextUuid |-> uuid, commit |-> commit]
        ELSE IF ~loadOk
        THEN [exit |-> 1, ok |-> FALSE, chunks |-> <<>>,
              logged |-> IF source = "github" THEN <<"error">> ELSE <<>>,
              failed |-> {"load"}, raised |-> FALSE, index |-> idx0,
              exists |-> TRUE, nextUuid |-> uuid, commit |-> commit]
        ELSE IF documents = <<>>
        THEN [exit |-> 0, ok |-> TRUE, chunks |-> <<>>, logged |-> loadLogged,
              failed |-> loadFailed, raised |-> FALSE, index |-> idx0,
              exists |-> TRUE, nextUuid |-> uuid, commit |-> written]
        ELSE [exit |-> IF a.ok THEN 0 ELSE 1, ok |-> a.ok, chunks |-> cs,
              logged |-> loadLogged \o c.logged \o a.logged \o
                            (IF a.ok THEN <<"ingestion">> ELSE <<>>),
              failed |-> loadFailed \cup c.failed \cup a.failed,
              raised |-> FALSE, index |-> a.index, exists |-> c.exists,
              nextUuid |-> a.nextUuid, commit |-> written]

\* ingest.py as one run of a new process: VectorStore() gets or creates the
\* collection (initOk), the documents are loaded (loadOk), chunked, the
\* collection is cleared and the chunks are added
ingest(source, files, initOk, loadOk, lost, commitOk, outcome, failAt, addOk) ==
    LET r == IngestRun(index, exists, nextUuid, head, last_commit, source, files,
                       initOk, loadOk, lost, commitOk, outcome, failAt, addOk)
    IN  /\ nextUuid + Len(files) - 1 <= MaxUuids
        /\ index' = r.index
        /\ exists' = r.exists
        /\ nextUuid' = r.nextUuid
        /\ last_commit' = r.commit
        /\ out' = [NoOut EXCEPT !.op = "ingest", !.chunks = r.chunks, !.ok = r.ok,
                                !.exit = r.exit, !.logged = r.logged,
                                !.failed = r.failed, !.raised = r.raised]
        /\ UNCHANGED <<head, sessionVars, chunkerVars, concVars>>

\* AutoUpdater.check_for_updates: with no recorded commit there is an update;
\* else the head of the repository is compared with the recorded commit, and
\* a failed request means no update
check_for_updates(commit, latest, apiOk) ==
    IF commit = NoCommit THEN TRUE ELSE apiOk /\ latest # commit

\* update_check_job: an ingestion from GitHub when check_for_updates finds an
\* update, and save_last_commit of the head when the run returned 0
UpdateCheckJob(idx, ex, uuid, latest, commit, files, apiOk, latestOk, initOk, loadOk, lost, commitOk, outcome, failAt, addOk) ==
    LET r == IngestRun(idx, ex, uuid, latest, commit, "github", files,
                       initOk, loadOk, lost, commitOk, outcome, failAt, addOk)
    IN  IF ~check_for_updates(commit, latest, apiOk)
        THEN [triggered |-> FALSE, run |-> r, index |-> idx, exists |-> ex,
              nextUuid |-> uuid, commit |-> commit]
        ELSE [triggered |-> TRUE, run |-> r, index |-> r.index, exists |-> r.exists,
              nextUuid |-> r.nextUuid,
              commit |-> IF r.exit = 0 /\ latestOk THEN latest ELSE r.commit]

update_check_job(files, apiOk, latestOk, initOk, loadOk, lost, commitOk, outcome, failAt, addOk) ==
    LET j == UpdateCheckJob(index, exists, nextUuid, head, last_commit, files, apiOk,
                            latestOk, initOk, loadOk, lost, commitOk, outcome,
                            failAt, addOk)
    IN  /\ nextUuid + Len(files) - 1 <= MaxUuids
        /\ index' = j.index
        /\ exists' = j.exists
        /\ nextUuid' = j.nextUuid
        /\ last_commit' = j.commit
        /\ out' = IF j.triggered
                  THEN [NoOut EXCEPT !.op = "update_check_job", !.triggered = TRUE,
                                     !.chunks = j.run.chunks, !.ok = j.run.ok,
                                     !.exit = j.run.exit, !.logged = j.run.logged,
                                     !.failed = j.run.failed,
                                     !.raised = j.run.raised]
                  ELSE [NoOut EXCEPT !.op = "update_check_job"]
        /\ UNCHANGED <<head, sessionVars, chunkerVars, concVars>>

\* a commit is pushed to the repository
push ==
    /\ head < MaxCommits
    /\ head' = head + 1
    /\ UNCHANGED <<last_commit, sessionVars, chunkerVars, indexVars, concVars>>

\* ------------------------------------------------------------ specifications
\* ChatSessionManager() on a new database file: both tables empty
StoreInit ==
    /\ sessions = <<>>
    /\ messages = <<>>
    /\ nextSid = 1
    /\ nextMid = 1
    /\ now = 0
    /\ added = <<>>
    /\ last = NoCall

\* no chunk_text call is under way
ChunkerIdle ==
    /\ raw = <<>>
    /\ cfg = [size |-> CHUNK_SIZE, overlap |-> CHUNK_OVERLAP]
    /\ text = <<>>
    /\ chunks = <<>>
    /\ start = 0
    /\ chunk_id = 0
    /\ pc = "idle"

\* VectorStore() on a new database directory: the collection exists and is empty
IndexInit ==
    /\ index = <<>>
    /\ exists = TRUE
    /\ nextUuid = 1
    /\ out = NoOut

Init == StoreInit /\ ChunkerIdle /\ IndexInit /\ UpdaterInit /\ ConcIdle

\* the session store called for two users, in any order, with any arguments
Next ==
    \/ \E u \in Users : create_session(u)
    \/ \E sid \in SessionIdArgs, u \in Users : switch_session(sid, u)
    \/ \E sid \in SessionIdArgs, u \in Users : delete_session(sid, u)
    \/ \E sid \in SessionIdArgs :
          nextMid <= SpecMessages /\ add_message(sid, "assistant", "x", NoFeedback)
    \/ Tick

Spec == Init /\ [][Next]_vars

\* the message operations on the sessions of one user, who stays within
\* MAX_SESSIONS_PER_USER sessions
NextMsg ==
    \/ nextSid <= MAX_SESSIONS_PER_USER /\ create_session("u1")
    \/ \E sid \in 1..(nextSid - 1), r \in Roles, c \in Contents :
          add_message(sid, r, c, NoFeedback)
    \/ \E sid \in 1..(nextSid - 1), c \in Contents, f \in Feedbacks :
          update_message_feedback(sid, c, f)
    \/ Tick

SpecMsg == Init /\ [][NextMsg]_vars

\* one chunk_text call, on any text of at most MaxLen characters, under the
\* configuration of config.py or a small one
Configs == {[size |-> CHUNK_SIZE, overlap |-> CHUNK_OVERLAP],
            [size |-> SmallChunkSize, overlap |-> SmallChunkOverlap]}

InitChunk ==
    /\ StoreInit
    /\ IndexInit
    /\ UpdaterInit
    /\ ConcIdle
    /\ raw \in Texts
    /\ cfg \in Configs
    /\ text = <<>>
    /\ chunks = <<>>
    /\ start = 0
    /\ chunk_id = 0
    /\ pc = "call"

NextChunk == chunk_text_begin \/ chunk_text_iter

SpecChunk == InitChunk /\ [][NextChunk]_vars

\* a text of n characters: periods at the positions P, spaces at the
\* positions S, letters everywhere else (positions count from 1)
Filler(n, P, S) ==
    [i \in 1..n |-> IF i \in P THEN "." ELSE IF i \in S THEN " " ELSE "a"]

\* 5000 characters of filler with a period as every 100th character
DocB == [i \in 1..5000 |-> IF i % 100 = 0 THEN "." ELSE "a"]

\* Texts longer than CHUNK_SIZE.  Lengths: one character more than a window,
\* two windows that end with the text, and one character more than that.
\* Periods: before the look-back of the first window, at its far end, and as
\* text[end - 1] and text[end].  Spaces: at the head of the text, where the
\* second window starts (once and doubled), and where the first window ends.
LongLens == {CHUNK_SIZE + 1, 2 * CHUNK_SIZE - CHUNK_OVERLAP,
             2 * CHUNK_SIZE - CHUNK_OVERLAP + 1}
PeriodPositions == {CHUNK_SIZE - 99, CHUNK_SIZE - 98, CHUNK_SIZE, CHUNK_SIZE + 1}
SpacePositions == {1, CHUNK_SIZE - CHUNK_OVERLAP + 1, CHUNK_SIZE - CHUNK_OVERLAP + 2,
                   CHUNK_SIZE}
LongTexts ==
    {Filler(n, P, S) : n \in LongLens, P \in SUBSET PeriodPositions,
                       S \in SUBSET SpacePositions} \cup {DocB}

\* one chunk_text call: on a long text under the configuration of config.py,
\* or on any text of at most MaxLen characters under the small one
InitChunkLong ==
    /\ StoreInit
    /\ IndexInit
    /\ UpdaterInit
    /\ ConcIdle
    /\ \/ raw \in LongTexts /\ cfg = [size |-> CHUNK_SIZE, overlap |-> CHUNK_OVERLAP]
       \/ raw \in Texts /\ cfg = [size |-> SmallChunkSize, overlap |-> SmallChunkOverlap]
    /\ text = <<>>
    /\ chunks = <<>>
    /\ start = 0
    /\ chunk_id = 0
    /\ pc = "call"

SpecChunkLong == InitChunkLong /\ [][NextChunk]_vars

\* configurations with 0 <= CHUNK_OVERLAP < CHUNK_SIZE in which the overlap
\* is one less than the size, or none at all
TightConfigs == {[size |-> 8, overlap |-> 7], [size |-> 12, overlap |-> 11],
                 [size |-> 12, overlap |-> 0]}

\* texts of a window and a few characters, with periods around the end of the
\* first window of 12 and a space inside it
TightTexts ==
    {Filler(n, P, S) : n \in 13..16, P \in SUBSET {10, 11, 12, 13}, S \in SUBSET {5}}

InitChunkTight ==
    /\ StoreInit
    /\ IndexInit
    /\ UpdaterInit
    /\ ConcIdle
    /\ raw \in TightTexts
    /\ cfg \in TightConfigs
    /\ text = <<>>
    /\ chunks = <<>>
    /\ start = 0
    /\ chunk_id = 0
    /\ pc = "call"

\* the call is followed for MaxIterations iterations of its loop
NextChunkTight ==
    \/ chunk_text_begin
    \/ Len(chunks) < MaxIterations /\ chunk_text_iter

SpecChunkTight == InitChunkTight /\ [][NextChunkTight]_vars
\* the vector store, the query orchestrator and ingestion runs, in any order,
\* every external call returning or raising
NextIndex ==
    \/ \E ds \in DocumentLists, failAt \in 0..MaxChunks, addOk \in BOOLEAN :
          failAt <= Len(ds) /\ add_documents(ds, failAt, addOk)
    \/ \E outcome \in ClearOutcomes : clear_collection(outcome)
    \/ \E q \in Queries, top_k \in TopKs, embOk, lookupOk \in BOOLEAN :
          search(q, top_k, embOk, lookupOk)
    \/ \E q \in Queries, embOk, lookupOk, logOk \in BOOLEAN, gen \in Generations :
          process_query(q, embOk, lookupOk, gen, logOk)
    \/ \E source \in Sources, ds \in DocumentLists, addOk \in BOOLEAN,
          outcome \in ClearOutcomes, failAt \in 0..MaxChunks :
          /\ failAt <= Len(ds)
          /\ ingest(source, ds, TRUE, TRUE, 0, TRUE, outcome, failAt, addOk)
    \/ \E source \in Sources, ds \in DocumentLists, lost \in 1..MaxChunks,
          commitOk \in BOOLEAN :
          /\ lost <= Len(ds)
          /\ ingest(source, ds, TRUE, TRUE, lost, commitOk, "cleared", 0, TRUE)
    \/ \E source \in Sources, initOk \in BOOLEAN :
          ingest(source, <<>>, initOk, FALSE, 0, TRUE, "cleared", 0, TRUE)

SpecIndex == Init /\ [][NextIndex]_vars

\* callers of create_session whose calls interleave, and the clock
NextConc ==
    \/ \E p \in Procs, u \in Users : conc_begin(p, u)
    \/ \E p \in Procs : conc_count(p)
    \/ \E p \in Procs : conc_evict(p)
    \/ \E p \in Procs : conc_insert(p)
    \/ \E p \in Procs : conc_return(p)
    \/ Tick

SpecConc == Init /\ [][NextConc]_vars

\* the auto-updater: commits are pushed, update_check_job runs on its schedule
\* and ingest.py is also run by hand
NextUpdater ==
    \/ push
    \/ \E ds \in DocumentLists, apiOk, latestOk, addOk \in BOOLEAN,
          outcome \in ClearOutcomes, failAt \in 0..MaxChunks :
          /\ failAt <= Len(ds)
          /\ update_check_job(ds, apiOk, latestOk, TRUE, TRUE, 0, TRUE, outcome,
                              failAt, addOk)
    \/ \E ds \in DocumentLists, lost \in 0..MaxChunks,
          initOk, loadOk, commitOk \in BOOLEAN :
          /\ lost <= Len(ds)
          /\ update_check_job(ds, TRUE, TRUE, initOk, loadOk, lost, commitOk,
                              "cleared", 0, TRUE)
    \/ \E source \in Sources, ds \in DocumentLists, addOk \in BOOLEAN :
          ingest(source, ds, TRUE, TRUE, 0, TRUE, "cleared", 0, addOk)

SpecUpdater == Init /\ [][NextUpdater]_vars
\* ------------------------------------------------------------------- claims
\* C1: after any sequence of create_session, switch_session, delete_session
\* and add_message calls, failed ones included, every user has at most one
\* session with is_active = true.
C1_AtMostOneActive ==
    \A u \in Users : Cardinality(ActiveSessions(sessions, u)) <= 1

\* a successful switch between two sessions of one user
C1_Witness ==
    /\ last.op = "switch_session"
    /\ last.ok
    /\ Cardinality(UserSessions(sessions, last.user_id)) >= 2
    /\ ActiveSessions(sessions, last.user_id) = {last.session_id}

\* C2: a create_session call that returns a session id leaves exactly one
\* active session for that user, the new one; every session the user had
\* before is inactive.
C2_CreateActivatesOnlyNew ==
    last.op = "create_session" =>
        /\ last.id \in UserSessions(sessions, last.user_id)
        /\ ActiveSessions(sessions, last.user_id) = {last.id}

\* a create for a user who keeps an earlier session
C2_Witness ==
    /\ last.op = "create_session"
    /\ \E i \in UserSessions(sessions, last.user_id) :
          i # last.id /\ ~sessions[i].is_active

\* C3: if a user has exactly one active session before switch_session, the
\* user has exactly one after it, whatever it returns; when it succeeds the
\* active session is the target.
C3_SwitchKeepsOneActive ==
    [][(/\ last'.op = "switch_session"
        /\ Cardinality(ActiveSessions(sessions, last'.user_id)) = 1)
       => /\ Cardinality(ActiveSessions(sessions', last'.user_id)) = 1
          /\ last'.ok => ActiveSessions(sessions', last'.user_id) = {last'.session_id}
      ]_vars

\* C4: switch_session with an id that does not exist or belongs to another
\* user returns failure and changes neither is_active nor updated_at of any
\* stored session.
C4_FailedSwitchIsNoOp ==
    [][(last'.op = "switch_session" /\ ~last'.ok)
       => /\ DOMAIN sessions' = DOMAIN sessions
          /\ \A i \in DOMAIN sessions :
                /\ sessions'[i].is_active = sessions[i].is_active
                /\ sessions'[i].updated_at = sessions[i].updated_at
      ]_vars

\* C5: no user ever holds more than MAX_SESSIONS_PER_USER sessions; a
\* create_session for a user who holds count >= MAX_SESSIONS_PER_USER
\* sessions removes exactly count - MAX_SESSIONS_PER_USER + 1 of them, none
\* of them updated later than a session that stays, and leaves the user with
\* exactly MAX_SESSIONS_PER_USER sessions, the new one among them.
C5_EvictsOldest ==
    [][\A u \in Users :
        LET had == UserSessions(sessions, u)
            has == UserSessions(sessions', u)
            gone == had \ has
            count == Cardinality(had)
        IN  /\ Cardinality(has) <= MAX_SESSIONS_PER_USER
            /\ (/\ last'.op = "create_session"
                /\ last'.user_id = u
                /\ count >= MAX_SESSIONS_PER_USER)
               => /\ Cardinality(gone) = count - MAX_SESSIONS_PER_USER + 1
                  /\ \A v \in gone, w \in had \ gone :
                        sessions[v].updated_at <= sessions[w].updated_at
                  /\ last'.id \notin had
                  /\ has = (had \ gone) \cup {last'.id}
                  /\ Cardinality(has) = MAX_SESSIONS_PER_USER
      ]_vars

\* a create that evicted, for a user one of whose remaining sessions was
\* updated after another user's call advanced the clock
C5_Witness ==
    /\ last.op = "create_session"
    /\ last.evicted # {}
    /\ Cardinality(UserSessions(sessions, last.user_id)) = MAX_SESSIONS_PER_USER
    /\ \E i \in UserSessions(sessions, last.user_id) :
          i # last.id /\ sessions[i].updated_at > 0

\* the k most recently inserted of the message ids
MostRecent(ids, k) == {m \in ids : Cardinality({o \in ids : o > m}) < k}

\* the ids add_message inserted with session_id sid
InsertedInto(sid) == {n \in DOMAIN added : added[n] = sid}

\* C6: a session holds at most MAX_CHAT_HISTORY messages, and they are the
\* MAX_CHAT_HISTORY most recently inserted ones (all of them while fewer were
\* inserted), also when messages share a created_at.
C6_KeepsMostRecent ==
    \A sid \in 0..MaxSessionIds :
        /\ Cardinality(SessionMessages(messages, sid)) <= MAX_CHAT_HISTORY
        /\ SessionMessages(messages, sid) = MostRecent(InsertedInto(sid), MAX_CHAT_HISTORY)

\* an add_message that pruned, in a session whose kept messages share a
\* created_at
C6_Witness ==
    /\ last.op = "add_message"
    /\ Cardinality(InsertedInto(last.session_id)) > MAX_CHAT_HISTORY
    /\ \E a, b \in SessionMessages(messages, last.session_id) :
          a # b /\ messages[a].created_at = messages[b].created_at

\* the assistant messages of session sid whose content is c
AssistantWith(sid, c) ==
    {m \in DOMAIN messages :
        /\ messages[m].session_id = sid
        /\ messages[m].role = "assistant"
        /\ messages[m].content = c}

\* the most recently created of a set of messages
Newest(ids) ==
    CHOOSE t \in ids :
        \A o \in ids : o <= t /\ messages[o].created_at <= messages[t].created_at

\* C7: update_message_feedback changes the feedback of exactly one message,
\* the most recently created assistant message of the session with exactly
\* that content, and nothing else; when there is none it reports failure and
\* changes no row.
C7_UpdatesNewestMatch ==
    [][last'.op = "update_message_feedback" =>
        LET matches == AssistantWith(last'.session_id, last'.content)
        IN  /\ sessions' = sessions
            /\ last'.ok = (matches # {})
            /\ matches = {} => messages' = messages
            /\ matches # {} =>
                \E t \in matches :
                    /\ \A o \in matches :
                          o <= t /\ messages[o].created_at <= messages[t].created_at
                    /\ messages' = [messages EXCEPT ![t].feedback = last'.feedback]
      ]_vars

\* an update in a session with two matching assistant messages: the newer
\* one holds the new feedback, the older one does not
C7_Witness ==
    /\ last.op = "update_message_feedback"
    /\ last.ok
    /\ \E a, b \in AssistantWith(last.session_id, last.content) :
          /\ a < b
          /\ messages[b].feedback = last.feedback
          /\ messages[a].feedback # last.feedback

\* C8: after an update_message_feedback call that matched, the matched
\* message holds the feedback of that call, whatever it held before; a call
\* for another session or content leaves it as it is; and the same call made
\* again leaves the whole store as it is.
C8_LastWriteWins ==
    [][last'.op = "update_message_feedback" =>
        /\ last'.ok =>
            messages'[Newest(AssistantWith(last'.session_id, last'.content))].feedback
                = last'.feedback
        /\ \A sid \in 0..MaxSessionIds, c \in Contents :
            (AssistantWith(sid, c) # {} /\ <<sid, c>> # <<last'.session_id, last'.content>>)
            => messages'[Newest(AssistantWith(sid, c))].feedback
                   = messages[Newest(AssistantWith(sid, c))].feedback
        /\ (/\ last.op = "update_message_feedback"
            /\ last.session_id = last'.session_id
            /\ last.content = last'.content
            /\ last.feedback = last'.feedback)
           => messages' = messages /\ sessions' = sessions
      ]_vars

\* an update that replaced an earlier, different feedback
C8_Witness ==
    /\ last.op = "update_message_feedback"
    /\ last.ok
    /\ last.before \in Feedbacks
    /\ last.before # last.feedback
    /\ messages[Newest(AssistantWith(last.session_id, last.content))].feedback
          = last.feedback

\* C9: every stored message belongs to a stored session: a successful
\* delete_session and an eviction remove the messages of the removed session,
\* and add_message stores no message for a session id that does not exist.
C9_NoOrphanMessages ==
    \A m \in DOMAIN messages : messages[m].session_id \in DOMAIN sessions

\* str.split(): the maximal runs of non-whitespace characters of s
RECURSIVE SplitWords(_, _)
SplitWords(s, word) ==
    LET done == IF word = <<>> THEN <<>> ELSE <<word>>
    IN  IF s = <<>> THEN done
        ELSE IF Head(s) \in Whitespace THEN done \o SplitWords(Tail(s), <<>>)
        ELSE SplitWords(Tail(s), Append(word, Head(s)))

\* ' '.join(words)
RECURSIVE JoinWords(_)
JoinWords(words) ==
    IF words = <<>> THEN <<>>
    ELSE IF Len(words) = 1 THEN words[1]
    ELSE words[1] \o <<" ">> \o JoinWords(Tail(words))

\* the whitespace-normalized text: its words, one space between two of them
Normalized(s) == JoinWords(SplitWords(s, <<>>))

\* C10: for a text whose whitespace-normalized length is at most CHUNK_SIZE,
\* chunk_text returns exactly one chunk, with chunk_id 0, start_char 0,
\* end_char the normalized length and content the whole normalized text.
C10_ShortTextOneChunk ==
    (pc = "done" /\ Len(Normalized(raw)) <= cfg.size) =>
        chunks = <<[content |-> Normalized(raw), chunk_id |-> 0, start_char |-> 0,
                    end_char |-> Len(Normalized(raw))]>>

\* a short text that normalization shortened at both ends and in the middle
C10_Witness ==
    /\ pc = "done"
    /\ Len(Normalized(raw)) <= cfg.size
    /\ Len(chunks) = 1
    /\ Len(raw) > 0
    /\ Head(raw) \in Whitespace
    /\ raw[Len(raw)] \in Whitespace
    /\ Len(SplitWords(raw, <<>>)) >= 2
    /\ Len(raw) > Len(chunks[1].content) + 2
\* C11: for a text whose normalized length exceeds CHUNK_SIZE, every chunk
\* has start_char < end_char, the chunk_ids are 0, 1, ..., n-1 in output
\* order, and two consecutive chunks overlap by end_char(k) - start_char(k+1)
\* characters, a number that is positive and at most CHUNK_OVERLAP.
C11_OverlapWithinBound ==
    Len(text) > cfg.size =>
        /\ \A k \in 1..Len(chunks) :
              /\ chunks[k].start_char < chunks[k].end_char
              /\ chunks[k].chunk_id = k - 1
        /\ \A k \in 1..(Len(chunks) - 1) :
              /\ chunks[k].end_char - chunks[k + 1].start_char > 0
              /\ chunks[k].end_char - chunks[k + 1].start_char <= cfg.overlap

\* three chunks under CHUNK_SIZE = 1000, one of them cut back to a period
C11_Witness ==
    /\ pc = "done"
    /\ cfg.size = CHUNK_SIZE
    /\ Len(text) > cfg.size
    /\ Len(chunks) >= 3
    /\ \E k \in 1..Len(chunks) :
          chunks[k].end_char - chunks[k].start_char < cfg.size

\* C12: every chunk has at most CHUNK_SIZE characters of content and a
\* recorded range end_char - start_char of at most CHUNK_SIZE, also when the
\* end was moved to a sentence terminator.
C12_ChunksBounded ==
    \A k \in 1..Len(chunks) :
        /\ Len(chunks[k].content) <= cfg.size
        /\ chunks[k].end_char - chunks[k].start_char <= cfg.size

\* s without its first n characters
DropPrefix(s, n) == SubSeq(s, Max(n, 0) + 1, Len(s))

\* the contents of the chunks, each after the first without the characters
\* its recorded range shares with the range of the chunk before it
RECURSIVE DeOverlap(_, _)
DeOverlap(cs, k) ==
    IF k > Len(cs) THEN <<>>
    ELSE IF k = 1 THEN cs[1].content \o DeOverlap(cs, 2)
    ELSE DropPrefix(cs[k].content, cs[k - 1].end_char - cs[k].start_char)
            \o DeOverlap(cs, k + 1)

\* C13: the chunks of a text, in order, each after the first taken without
\* its first end_char(k-1) - start_char(k) characters, concatenate to the
\* whitespace-normalized text.
C13_RoundTrip ==
    pc = "done" => DeOverlap(chunks, 1) = text

\* C14: under CHUNK_SIZE = 1000 and CHUNK_OVERLAP = 200 the document of 5000
\* characters with a period as every 100th character gives exactly 6 chunks,
\* and every chunk but the last ends one character after a period.
C14_DocBSixChunks ==
    (/\ pc = "done"
     /\ raw = DocB
     /\ cfg = [size |-> CHUNK_SIZE, overlap |-> CHUNK_OVERLAP])
    => /\ Len(chunks) = 6
       /\ \A k \in 1..(Len(chunks) - 1) :
             /\ chunks[k].end_char <= Len(text)
             /\ PyIndex(text, chunks[k].end_char - 1) = "."
\* C15: when the embedding model raises during add_documents, the call
\* returns failure and the collection holds the records it held before the
\* call: the same count, documents, embeddings and ids.
C15_EmbeddingFailureCommitsNothing ==
    [][(out'.op = "add_documents" /\ "embedding" \in out'.failed)
       => ~out'.ok /\ index' = index
      ]_vars

\* the model raised on the second of two chunks, added to a collection that
\* held records
C15_Witness ==
    /\ out.op = "add_documents"
    /\ "embedding" \in out.failed
    /\ ~out.ok
    /\ Len(out.chunks) >= 2
    /\ index # <<>>

\* C16: search raises nothing to its caller; on an empty collection, and when
\* embedding the query or the lookup fails, it returns the empty sequence.
C16_SearchNeverRaises ==
    out.op = "search" =>
        /\ ~out.raised
        /\ (index = <<>> \/ out.failed # {}) => out.results = <<>>

\* a lookup that failed on a collection that holds records
C16_Witness ==
    /\ out.op = "search"
    /\ "lookup" \in out.failed
    /\ index # <<>>
    /\ out.results = <<>>

\* C17: search returns at most top_k results and at most as many as the
\* collection holds records; the rank fields are 1..len(results) in output
\* order; similarity_score is 1 - distance and never increases along the
\* sequence.
C17_RankedByDescendingScore ==
    out.op = "search" =>
        /\ Len(out.results) <= out.top_k
        /\ Len(out.results) <= Len(index)
        /\ \A i \in 1..Len(out.results) :
              /\ out.results[i].rank = i
              /\ out.results[i].similarity_score
                    = 1 - Distance(Embed(out.query), Embed(out.results[i].content))
        /\ \A i, j \in 1..Len(out.results) :
              i < j => out.results[i].similarity_score >= out.results[j].similarity_score

\* a search that left a record out and returned two results of different score
C17_Witness ==
    /\ out.op = "search"
    /\ Len(index) > out.top_k
    /\ Len(out.results) = out.top_k
    /\ Len(out.results) >= 2
    /\ out.results[1].similarity_score > out.results[2].similarity_score

\* C18: an ingestion run that added chunks and exits with status 0 leaves a
\* collection of exactly the chunks of that run, in their order, and none of
\* the records the collection held before the run.
C18_IngestIsFullRebuild ==
    [][(out'.op = "ingest" /\ out'.exit = 0 /\ out'.chunks # <<>>)
       => /\ Len(index') = Len(out'.chunks)
          /\ \A k \in 1..Len(index') :
                /\ k <= Len(out'.chunks)
                /\ index'[k].document = out'.chunks[k].content
          /\ \A k \in 1..Len(index'), j \in 1..Len(index) : index'[k].id # index[j].id
      ]_vars

\* C19: when search returns the empty sequence, process_query returns the
\* no-relevant-information message with an empty source list and does not
\* call the generator.
C19_EmptySearchGivesFixedMessage ==
    (out.op = "process_query" /\ out.results = <<>>) =>
        /\ out.response = NoInformation
        /\ out.sources = <<>>
        /\ ~out.generated

\* a question asked of a collection that holds records, whose search came
\* back empty
C19_Witness ==
    /\ out.op = "process_query"
    /\ out.results = <<>>
    /\ index # <<>>
    /\ out.response = NoInformation
    /\ ~out.generated

\* C20: when search or generation fails with an exception inside
\* process_query, process_query returns an error string with an empty source
\* list, raises nothing, and an error record is logged.
C20_FailureGivesErrorString ==
    (/\ out.op = "process_query"
     /\ out.failed \cap {"embedding", "lookup", "generation"} # {})
    => /\ out.response \in {GenerationError, ProcessingError}
       /\ out.sources = <<>>
       /\ ~out.raised
       /\ "error" \in Range(out.logged)
\* how often the record x is in the log s
Count(s, x) == Cardinality({i \in DOMAIN s : s[i] = x})

\* C21: every process_query call writes the query log record (question,
\* chunk previews, response) exactly once, whatever its outcome: also when
\* search returned no chunks and when generation failed.
C21_LogsInteractionOnce ==
    out.op = "process_query" => Count(out.logged, "query") = 1
\* C24: chunk_text terminates under every configuration with
\* 0 <= CHUNK_OVERLAP < CHUNK_SIZE, because every iteration of the loop,
\* also one that cut the chunk back to a sentence terminator, leaves start
\* greater than it was.
C24_StartAdvances ==
    [][pc = "loop" => start' > start]_vars

\* C29: every chunk of every text, the empty and the whitespace-only text
\* included, records offsets inside the normalized text:
\* 0 <= start_char < end_char <= len(text).
C29_OffsetsInsideText ==
    pc = "done" =>
        \A k \in 1..Len(chunks) :
            /\ 0 <= chunks[k].start_char
            /\ chunks[k].start_char < chunks[k].end_char
            /\ chunks[k].end_char <= Len(text)
\* C27: a successful add_documents appends exactly len(chunks) records behind
\* the records the collection held: their ids differ from each other and from
\* every id already held, and the i-th of them carries the content, the
\* embedding of that content and the metadata of the i-th chunk. A document
\* the collection already holds is appended again, and adding the empty list
\* succeeds and changes nothing.
C27_AddAppendsOnePerChunk ==
    [][(out'.op = "add_documents" /\ out'.ok) =>
          LET cs == out'.chunks
              n == Len(index)
          IN  /\ Len(index') = n + Len(cs)
              /\ SubSeq(index', 1, n) = index
              /\ \A k \in 1..Len(cs) :
                     /\ index'[n + k].document = cs[k].content
                     /\ index'[n + k].embedding = Embed(cs[k].content)
                     /\ index'[n + k].chunk_id = cs[k].chunk_id
                     /\ \A j \in 1..(n + Len(cs)) :
                            j # n + k => index'[j].id # index'[n + k].id
              /\ (cs = <<>> => index' = index)]_vars

\* C27 happens: a successful add_documents of some chunks has left a document
\* in the collection twice
C27_Witness ==
    /\ out.op = "add_documents"
    /\ out.ok
    /\ out.chunks # <<>>
    /\ \E i, j \in DOMAIN index :
           /\ i < j
           /\ j > Len(index) - Len(out.chunks)
           /\ index[i].document = index[j].document
\* C26: an ingestion run in which a step failed (loading, clearing, embedding
\* or adding) ends with a status other than 0 and does not report success.
C26_FailedRunExitsNonZero ==
    (out.op = "ingest" /\ out.failed # {}) =>
        (out.exit # 0 /\ Count(out.logged, "ingestion") = 0)

\* C30: a GitHub ingestion that update_check_job triggered and that failed
\* leaves the recorded commit as it was, so that the next check_for_updates
\* still finds the update.
C30_FailedIngestionKeepsCommit ==
    [][(out'.op = "update_check_job" /\ out'.triggered /\ out'.exit # 0)
          => (last_commit' = last_commit /\ check_for_updates(last_commit', head', TRUE))]_vars
\* C25: the collection handle of the vector store never refers to a deleted
\* collection: also after a clear_collection that deleted the collection and
\* failed to create it again, and so add_documents and search never run on a
\* collection that is no longer there.
C25_HandleNeverStale ==
    out.op \in {"clear_collection", "add_documents", "search"} => exists
C22_ConcurrentCreatesOneActive ==
    \A p, q \in Procs :
        (/\ p # q
         /\ calls[p].pc = "done"
         /\ calls[q].pc = "done"
         /\ calls[p].user_id = calls[q].user_id)
        => Cardinality(ActiveSessions(sessions, calls[p].user_id)) <= 1

\* C22 happens: two calls of one user have returned that both counted the
\* same sessions (the second counted before the first inserted), and the
\* sessions of both are there
C22_Witness ==
    \E p, q \in Procs :
        /\ p # q
        /\ calls[p].pc = "done"
        /\ calls[q].pc = "done"
        /\ calls[p].user_id = calls[q].user_id
        /\ calls[p].count = calls[q].count
        /\ calls[p].count < MAX_SESSIONS_PER_USER
        /\ {calls[p].id, calls[q].id} \subseteq DOMAIN sessions

\* C23: whatever the interleaving of concurrent create_session calls of one
\* user, once no call is under way the user has at most
\* MAX_SESSIONS_PER_USER sessions.
C23_ConcurrentCreatesWithinLimit ==
    Running = {} =>
        \A u \in Users :
            Cardinality(UserSessions(sessions, u)) <= MAX_SESSIONS_PER_USER
=============================================================================
